---- MODULE Spec2Model ----
(***************************************************************************)
(* State-machine model of the brakes circuit breaker: Bucket and Stats     *)
(* (rolling window), Circuit (exec pipeline) and Brakes (open/closed state *)
(* machine, generations, health probe and cooldown timers).                *)
(*                                                                         *)
(* One state of the model is the state of the program between two          *)
(* event-loop callbacks: each action is one synchronous call or one        *)
(* callback run to completion, every handler it triggers included.         *)
(* Handlers are operators on a record m holding the mutable fields of the  *)
(* Brakes and Stats objects, the events emitted so far by the running      *)
(* callback and whether it has thrown.                                     *)
(***************************************************************************)
EXTENDS Integers, Sequences, FiniteSets, Bags, TLC

\* ------------------------------------------------------------- bounds
\* opts.bucketNum: buckets in the rolling window
BucketNum == 2
\* exec() calls in flight at once
MaxCalls == 1
\* cap on _circuitGeneration
MaxGen == 3
\* cap on the window's total plus its shortCircuited
MaxTotal == 2
\* health probes pending at once
MaxProbes == 2
\* largest total of an aggregate handed to the 'update' listener
MaxStat == 2

\* opts.threshold = 0.5 = ThresholdNum / ThresholdDen
ThresholdNum == 1
ThresholdDen == 2
\* opts.waitThreshold values explored
WaitThresholds == {0, 1}
\* elapsed times (Date.now() - startTime) explored; none is ever stored, see defaultCumulativeStats
RunTimes == {1}
\* snapshot intervals of one Stats scheduled at once
MaxSnapshotTimers == 2
\* latency samples of one bucket
MaxSamples == 2
\* latency samples (ms) explored
SampleTimes == {0, 1, 2}
\* opts.percentiles, each as <<numerator, denominator>>
Percentiles == <<(<<0, 1>>), (<<1, 4>>), (<<1, 2>>), (<<3, 4>>), (<<9, 10>>), (<<19, 20>>), (<<99, 100>>), (<<199, 200>>), (<<1, 1>>)>>

VARIABLES
  circuitOpen,        \* Brakes._circuitOpen
  circuitGeneration,  \* Brakes._circuitGeneration
  healthInterval,     \* Brakes._healthInterval is set (interval scheduled)
  cooldownTimers,     \* pending timers of _resetCircuitTimeout
  buckets,            \* Stats._buckets
  activeBucket,       \* index in _buckets of the Bucket _activeBucket refers to; 0: not in the ring
  cumulative,         \* Stats._cumulative, shared by every Bucket
  totals,             \* latencyMean and percentiles of Stats._totals
  calls,              \* exec() calls in flight: a bag of [pc, execGeneration]
  probes,             \* health probes whose promise is pending
  waitThreshold,      \* opts.waitThreshold
  hasHealthCheck,     \* Brakes._healthCheck is set
  nCircuitOpen,       \* 'circuitOpen' events emitted so far
  nCircuitClosed,     \* 'circuitClosed' events emitted so far
  attached,           \* the listeners of 'success', 'timeout', 'failure' are on the Brakes emitter
  _brakesInstances,   \* GlobalStats._brakesInstances
  globalListeners,    \* bound copies of GlobalStats._globalListener on the breaker's 'snapshot'
  snapshotInterval,   \* Stats._snapshotInterval is set
  snapshotTimers,     \* snapshot intervals scheduled by setInterval and not cleared
  last                \* what the last callback did and returned

vars == <<circuitOpen, circuitGeneration, healthInterval, cooldownTimers, buckets, activeBucket, cumulative, totals, calls, probes, waitThreshold, hasHealthCheck, nCircuitOpen, nCircuitClosed, attached, _brakesInstances, globalListeners, snapshotInterval, snapshotTimers, last>>

\* Stats._activePosition = opts.bucketNum - 1, counted from 1 here.
_activePosition == BucketNum

\* ------------------------------------------------------------- Bucket

\* A new Bucket: every counter 0, no latency sample.
Bucket == [total |-> 0, successful |-> 0, failed |-> 0, timedOut |-> 0, shortCircuited |-> 0, requestTimes |-> <<>>]

\* The CumulativeStats a Stats holds after construction. defaultCumulativeStats
\* is only used as a type: the field _cumulative is declared and never
\* assigned, so it is undefined (defined = FALSE) and every Bucket is
\* constructed with an undefined cumulativeStats.
defaultCumulativeStats == [defined |-> FALSE, countTotal |-> 0, countSuccess |-> 0, countFailure |-> 0, countTimeout |-> 0, countShortCircuited |-> 0, countTotalDeriv |-> 0, countSuccessDeriv |-> 0, countFailureDeriv |-> 0, countTimeoutDeriv |-> 0, countShortCircuitedDeriv |-> 0]

\* Bucket.failure with the cumulative writes skipped when cumulativeStats is
\* undefined (as with optional chaining): nothing throws.
Bucket_failure_guarded(b, cum, runTime) ==
  [b |-> [b EXCEPT !.total = @ + 1, !.failed = @ + 1, !.requestTimes = Append(@, runTime)],
   cum |-> IF cum.defined THEN [cum EXCEPT !.countTotal = @ + 1, !.countTotalDeriv = @ + 1, !.countFailure = @ + 1, !.countFailureDeriv = @ + 1] ELSE cum,
   threw |-> FALSE]

\* Bucket.failure: total++ comes first; the next statement reads a property
\* of cumulativeStats and throws a TypeError when it is undefined.
Bucket_failure(b, cum, runTime) ==
  LET b1 == [b EXCEPT !.total = @ + 1] IN
  IF ~cum.defined
    THEN [b |-> b1, cum |-> cum, threw |-> TRUE]
    ELSE [b |-> [b1 EXCEPT !.failed = @ + 1, !.requestTimes = Append(@, runTime)],
          cum |-> [cum EXCEPT !.countTotal = @ + 1, !.countTotalDeriv = @ + 1, !.countFailure = @ + 1, !.countFailureDeriv = @ + 1],
          threw |-> FALSE]

\* Bucket.success
Bucket_success(b, cum, runTime) ==
  LET b1 == [b EXCEPT !.total = @ + 1] IN
  IF ~cum.defined
    THEN [b |-> b1, cum |-> cum, threw |-> TRUE]
    ELSE [b |-> [b1 EXCEPT !.successful = @ + 1, !.requestTimes = Append(@, runTime)],
          cum |-> [cum EXCEPT !.countTotal = @ + 1, !.countTotalDeriv = @ + 1, !.countSuccess = @ + 1, !.countSuccessDeriv = @ + 1],
          threw |-> FALSE]

\* Bucket.timeout
Bucket_timeout(b, cum, runTime) ==
  LET b1 == [b EXCEPT !.total = @ + 1] IN
  IF ~cum.defined
    THEN [b |-> b1, cum |-> cum, threw |-> TRUE]
    ELSE [b |-> [b1 EXCEPT !.timedOut = @ + 1, !.requestTimes = Append(@, runTime)],
          cum |-> [cum EXCEPT !.countTotal = @ + 1, !.countTotalDeriv = @ + 1, !.countTimeout = @ + 1, !.countTimeoutDeriv = @ + 1],
          threw |-> FALSE]

\* Bucket.shortCircuit: shortCircuited++ comes first, then the cumulative
\* counters.
Bucket_shortCircuit(b, cum) ==
  LET b1 == [b EXCEPT !.shortCircuited = @ + 1] IN
  IF ~cum.defined
    THEN [b |-> b1, cum |-> cum, threw |-> TRUE]
    ELSE [b |-> b1,
          cum |-> [cum EXCEPT !.countShortCircuited = @ + 1, !.countShortCircuitedDeriv = @ + 1],
          threw |-> FALSE]

\* ------------------------------------------------------------- helpers

\* EventEmitter.emit: the event joins those the running callback emitted.
Emit(m, event) == [m EXCEPT !.emitted = Append(@, event)]

\* How many times event e occurs in the sequence es.
Count(es, e) == Cardinality({i \in 1..Len(es) : es[i] = e})

RECURSIVE SumField(_, _, _)
SumField(bs, f, i) == IF i = 0 THEN 0 ELSE bs[i][f] + SumField(bs, f, i - 1)

\* No aggregate: the value of openedOn when _checkStats has not opened.
NoStats == [total |-> -1, successful |-> -1, failed |-> -1, timedOut |-> -1, shortCircuited |-> -1]

\* ------------------------------------------------------------- Brakes state machine

\* Brakes._setHealthInterval: schedules the probe interval unless one is set.
_setHealthInterval(m) == IF m.healthInterval THEN m ELSE [m EXCEPT !.healthInterval = TRUE]

\* Brakes._resetCircuitTimeout: schedules one cooldown timer; no handle is kept.
_resetCircuitTimeout(m) == [m EXCEPT !.cooldownTimers = @ + 1]

\* _open with the generation incremented before the already-open return.
_open_countsFirst(m) ==
  LET m0 == [m EXCEPT !.circuitGeneration = @ + 1] IN
  IF m.circuitOpen THEN m0
  ELSE LET m1 == [Emit(m0, "circuitOpen") EXCEPT !.circuitOpen = TRUE] IN
       IF hasHealthCheck THEN _setHealthInterval(m1) ELSE _resetCircuitTimeout(m1)

\* Brakes._open
_open(m) ==
  IF m.circuitOpen THEN m
  ELSE LET m1 == [Emit(m, "circuitOpen") EXCEPT !.circuitOpen = TRUE, !.circuitGeneration = @ + 1] IN
       IF hasHealthCheck THEN _setHealthInterval(m1) ELSE _resetCircuitTimeout(m1)

\* Brakes._close
_close(m) == Emit([m EXCEPT !.circuitOpen = FALSE], "circuitClosed")

\* _checkStats with total >= waitThreshold in place of total > waitThreshold.
_checkStats_atThreshold(m, stats) ==
  LET pastThreshold == stats.total >= waitThreshold IN
  IF ~pastThreshold \/ stats.total = 0 \/ m.circuitOpen THEN m
  ELSE IF stats.successful * ThresholdDen < ThresholdNum * stats.total
    THEN _open([m EXCEPT !.openedOn = stats])
    ELSE m

\* Brakes._checkStats, the listener of Stats 'update'. stats.successful /
\* stats.total < threshold is compared by cross-multiplication (total > 0
\* here). openedOn remembers the aggregate on which it called _open.
_checkStats(m, stats) ==
  LET pastThreshold == stats.total > waitThreshold IN
  IF ~pastThreshold \/ stats.total = 0 \/ m.circuitOpen THEN m
  ELSE IF stats.successful * ThresholdDen < ThresholdNum * stats.total
    THEN _open([m EXCEPT !.openedOn = stats])
    ELSE m

\* ------------------------------------------------------------- Stats

\* Stats._generateStats: the sums over the window's buckets (the reduce).
_generateStats(bs) == [total |-> SumField(bs, "total", Len(bs)), successful |-> SumField(bs, "successful", Len(bs)), failed |-> SumField(bs, "failed", Len(bs)), timedOut |-> SumField(bs, "timedOut", Len(bs)), shortCircuited |-> SumField(bs, "shortCircuited", Len(bs))]

RECURSIVE ConcatTimes(_, _)
\* The requestTimes of the first i buckets of bs, concatenated.
ConcatTimes(bs, i) == IF i = 0 THEN <<>> ELSE ConcatTimes(bs, i - 1) \o bs[i].requestTimes

\* array[i] of JavaScript, i counted from 0: <<the element>>, or <<>> for
\* undefined when i is no index of the array.
At(array, i) == IF i + 1 \in 1..Len(array) THEN <<array[i + 1]>> ELSE <<>>

\* x || 0 for a number or undefined or NaN (<<>>): 0 for the falsy ones.
OrZero(x) == IF x = <<>> THEN 0 ELSE x[1]

\* Math.ceil(num / den) for num >= 0, den > 0.
Ceil(num, den) == (num + den - 1) \div den

RECURSIVE SumSeq(_, _)
SumSeq(array, i) == IF i = 0 THEN 0 ELSE array[i] + SumSeq(array, i - 1)

\* Stats._calculatePercentile with Math.floor in place of Math.ceil.
_calculatePercentile_floor(percentile, array) ==
  IF percentile[1] = 0 THEN At(array, 0)
  ELSE LET idx == (percentile[1] * Len(array)) \div percentile[2] IN At(array, idx - 1)

\* Stats._calculatePercentile on a sorted array.
_calculatePercentile(percentile, array) ==
  IF percentile[1] = 0 THEN At(array, 0)
  ELSE LET idx == Ceil(percentile[1] * Len(array), percentile[2]) IN At(array, idx - 1)

\* Stats._calculateMean: Math.round(sum / length), halves rounded up; NaN
\* (<<>>) for the empty array.
_calculateMean(array) ==
  IF Len(array) = 0 THEN <<>>
  ELSE <<(2 * SumSeq(array, Len(array)) + Len(array)) \div (2 * Len(array))>>

\* Stats._generateStats with includeLatencyStats: the requestTimes of the
\* buckets concatenated and sorted, their mean and percentiles.
LatencyStats(bs) ==
  LET requestTimes == SortSeq(ConcatTimes(bs, Len(bs)), LAMBDA a, b : a < b) IN
  [latencyMean |-> OrZero(_calculateMean(requestTimes)),
   percentiles |-> [k \in 1..Len(Percentiles) |-> OrZero(_calculatePercentile(Percentiles[k], requestTimes))]]

\* _shiftAndPush with pop in place of shift: the item pushed is taken off
\* again.
_shiftAndPush_pop(arr, item) == SubSeq(Append(arr, item), 1, Len(arr))

\* Stats._shiftAndPush: push at the end, shift from the front.
_shiftAndPush(arr, item) == Tail(Append(arr, item))

\* Stats._update: emits 'update' with a new aggregate (kept in updates);
\* Brakes listens with _checkStats.
_update(m) ==
  LET stats == _generateStats(m.buckets) IN
  _checkStats([Emit(m, "update") EXCEPT !.updates = Append(@, stats)], stats)

RECURSIVE ResetBuckets(_, _)
ResetBuckets(bs, n) == IF n = 0 THEN bs ELSE ResetBuckets(_shiftAndPush(bs, Bucket), n - 1)

\* reset without the loop that replaces the buckets.
Stats_reset_keepsBuckets(m) == _update(m)

\* Stats.reset: bucketNum times shift-and-push a new Bucket, _activeBucket
\* set to the bucket at _activePosition, then _update.
Stats_reset(m) == _update([m EXCEPT !.buckets = ResetBuckets(@, BucketNum), !.activeBucket = _activePosition])

\* The rotation callback without the assignment of _activeBucket: the
\* Bucket it refers to has moved one place towards the front, or out.
Stats_rotate_keepsActive(m) == [m EXCEPT !.buckets = _shiftAndPush(@, Bucket), !.activeBucket = IF @ > 0 THEN @ - 1 ELSE 0]

\* The callback of the rotation interval of Stats._startBucketSpinning:
\* shift-and-push a new Bucket, _activeBucket set to the bucket at
\* _activePosition.
Stats_rotate(m) == [m EXCEPT !.buckets = _shiftAndPush(@, Bucket), !.activeBucket = _activePosition]

\* The Bucket _activeBucket refers to; off the ring it is an object no
\* aggregate reads, taken as a new one.
ActiveBucket(m) == IF m.activeBucket > 0 THEN m.buckets[m.activeBucket] ELSE Bucket

\* Applies the result r of a Bucket method to the Bucket _activeBucket
\* refers to; a throw leaves the method before _update.
Recorded(m, r) ==
  LET m0 == IF m.activeBucket > 0 THEN [m EXCEPT !.buckets[m.activeBucket] = r.b] ELSE m
      m1 == [m0 EXCEPT !.cumulative = r.cum] IN
  IF r.threw THEN [m1 EXCEPT !.threw = TRUE] ELSE _update(m1)

\* Stats.failure
Stats_failure(m, runTime) == Recorded(m, Bucket_failure(ActiveBucket(m), m.cumulative, runTime))

\* Stats.success
Stats_success(m, runTime) == Recorded(m, Bucket_success(ActiveBucket(m), m.cumulative, runTime))

\* Stats.timeout
Stats_timeout(m, runTime) == Recorded(m, Bucket_timeout(ActiveBucket(m), m.cumulative, runTime))

\* Stats.shortCircuit
Stats_shortCircuit(m) == Recorded(m, Bucket_shortCircuit(ActiveBucket(m), m.cumulative))

\* Stats._resetDerivs: the first assignment writes a property of
\* _cumulative and throws a TypeError when it is undefined.
_resetDerivs(m) ==
  IF ~m.cumulative.defined THEN [m EXCEPT !.threw = TRUE]
  ELSE [m EXCEPT !.cumulative = [@ EXCEPT !.countTotalDeriv = 0, !.countSuccessDeriv = 0, !.countFailureDeriv = 0, !.countTimeoutDeriv = 0, !.countShortCircuitedDeriv = 0]]

\* GlobalStats._globalListener, once for each of the n bound copies
\* subscribed to the breaker's 'snapshot': the payload is an object and the
\* raw stream, resumed by the constructor, is not paused, so each copy
\* pushes one JSON string.
_globalListener(m, n) == [m EXCEPT !.pushed = @ + n]

\* Brakes._snapshotHandler, the listener of Stats 'snapshot': emits the
\* breaker's own 'snapshot', which GlobalStats listens to.
_snapshotHandler(m) == _globalListener(Emit(m, "Brakes.snapshot"), m.globalListeners)

\* Stats._snapshot: emits 'snapshot' with the totals (the window's sums
\* with the fields of _cumulative assigned over them; Object.assign takes
\* nothing from an undefined source, so cum.defined = FALSE is a payload
\* without any count field), then _resetDerivs.
_snapshot(m) ==
  LET payload == [window |-> _generateStats(m.buckets), cum |-> m.cumulative] IN
  _resetDerivs(_snapshotHandler([Emit(m, "snapshot") EXCEPT !.snapshots = Append(@, payload), !.totals = LatencyStats(m.buckets)]))

\* ------------------------------------------------------------- Brakes listeners

\* Brakes._successHandler: 'success' carries no generation.
_successHandler(m, runTime) == Stats_success(m, runTime)

\* Brakes._timeoutHandler
_timeoutHandler(m, runTime, execGeneration) ==
  IF execGeneration = m.circuitGeneration THEN Stats_timeout(m, runTime) ELSE m

\* _failureHandler without the generation filter.
_failureHandler_unfiltered(m, runTime, execGeneration) == Stats_failure(m, runTime)

\* Brakes._failureHandler
_failureHandler(m, runTime, execGeneration) ==
  IF execGeneration = m.circuitGeneration THEN Stats_failure(m, runTime) ELSE m

\* The listeners _attachListeners puts on the Brakes emitter for 'success',
\* 'timeout' and 'failure'; after destroy() the events have no listener.
OnSuccess(m, runTime) == IF m.attached THEN _successHandler(m, runTime) ELSE m
OnTimeout(m, runTime, execGeneration) == IF m.attached THEN _timeoutHandler(m, runTime, execGeneration) ELSE m
OnFailure(m, runTime, execGeneration) == IF m.attached THEN _failureHandler(m, runTime, execGeneration) ELSE m

\* ------------------------------------------------------------- timers of Brakes

\* The cooldown callback without the reset of Stats.
CooldownCallback_noReset(m) == _close(m)

\* The cooldown callback without the call of _close.
CooldownCallback_noClose(m) == Stats_reset(m)

\* The callback of the cooldown timer of _resetCircuitTimeout.
CooldownCallback(m) == _close(Stats_reset(m))

\* The then-callback with clearInterval left out on the closing path.
HealthCheckResolved_keepsInterval(m) ==
  IF m.circuitOpen THEN _close(Stats_reset(m))
  ELSE IF m.healthInterval THEN [m EXCEPT !.healthInterval = FALSE] ELSE m

\* The then-callback without the test of _circuitOpen.
HealthCheckResolved_unguarded(m) ==
  LET m1 == _close(Stats_reset(m)) IN
  IF m1.healthInterval THEN [m1 EXCEPT !.healthInterval = FALSE] ELSE m1

\* The then-callback of a health probe in _setHealthInterval.
HealthCheckResolved(m) ==
  LET m1 == IF m.circuitOpen THEN _close(Stats_reset(m)) ELSE m IN
  IF m1.healthInterval THEN [m1 EXCEPT !.healthInterval = FALSE] ELSE m1

\* The catch-callback clearing the interval as well.
HealthCheckRejected_stopsProbing(m) == [Emit(m, "healthCheckFailed") EXCEPT !.healthInterval = FALSE]

\* The catch-callback of a health probe.
HealthCheckRejected(m) == Emit(m, "healthCheckFailed")

\* ------------------------------------------------------------- Circuit.exec

\* The fallback dispatch of Circuit.exec: the circuit's own _fallback
\* (circuitFallback: the circuit has one), else the breaker's
\* (brakesFallback: Brakes._fallback is set), else the error.
Fallback(circuitFallback, brakesFallback, err) == IF circuitFallback THEN "fallback" ELSE IF brakesFallback THEN "brakesFallback" ELSE err

\* Circuit.exec on an open breaker: 'exec', then the short circuit; a throw
\* of shortCircuit() leaves exec before any fallback is looked at.
ExecShortCircuit(m) == Stats_shortCircuit(Emit(m, "exec"))

\* The tap-callback of Circuit.exec: the primary resolved.
TapCallback(m, runTime) == OnSuccess(Emit(m, "success"), runTime)

\* The catch-callback with opts.isFailure not consulted.
CatchCallback_allFailures(m, err, isF, runTime, execGeneration) ==
  IF err = "TimeOutError" THEN OnTimeout(Emit(m, "timeout"), runTime, execGeneration)
  ELSE OnFailure(Emit(m, "failure"), runTime, execGeneration)

\* The catch-callback of Circuit.exec, up to the fallback dispatch. isF is
\* what opts.isFailure(err) returns.
CatchCallback(m, err, isF, runTime, execGeneration) ==
  IF err = "TimeOutError" THEN OnTimeout(Emit(m, "timeout"), runTime, execGeneration)
  ELSE IF isF THEN OnFailure(Emit(m, "failure"), runTime, execGeneration)
  ELSE m

\* ------------------------------------------------------------- the machine

\* The mutable fields before a callback runs.
Cur == [circuitOpen |-> circuitOpen, circuitGeneration |-> circuitGeneration, healthInterval |-> healthInterval, cooldownTimers |-> cooldownTimers, buckets |-> buckets, activeBucket |-> activeBucket, cumulative |-> cumulative, totals |-> totals, emitted |-> <<>>, updates |-> <<>>, snapshots |-> <<>>, threw |-> FALSE, openedOn |-> NoStats, attached |-> attached, globalListeners |-> globalListeners, pushed |-> 0]

WindowTotal == SumField(buckets, "total", BucketNum)
WindowShort == SumField(buckets, "shortCircuited", BucketNum)
Fresh(bs) == \A i \in 1..Len(bs) : bs[i] = Bucket

\* What a callback did: the operation, the execGeneration of the call it
\* served, what exec's caller got, the events emitted, whether the primary
\* was invoked, whether the circuit had a fallback of its own, the
\* aggregate _checkStats opened on, whether the window held recordings
\* before, the payloads of the 'update' and 'snapshot' events emitted,
\* whether it is a snapshot that follows a snapshot with no callback in
\* between, what opts.isFailure returns for the error (TRUE, the default,
\* where it was not called), whether Brakes._fallback was set when the
\* fallback dispatch read it.
Did(m, op, gen, result, primary, circuitFallback) == [op |-> op, gen |-> gen, result |-> result, emitted |-> m.emitted, primary |-> primary, circuitFallback |-> circuitFallback, openedOn |-> m.openedOn, dirty |-> ~Fresh(buckets), updates |-> m.updates, snapshots |-> m.snapshots, again |-> FALSE, isFailure |-> TRUE, brakesFallback |-> FALSE, pushed |-> m.pushed]

\* The fields after the callback.
Commit(m) ==
  /\ circuitOpen' = m.circuitOpen
  /\ circuitGeneration' = m.circuitGeneration
  /\ healthInterval' = m.healthInterval
  /\ cooldownTimers' = m.cooldownTimers
  /\ buckets' = m.buckets
  /\ activeBucket' = m.activeBucket
  /\ cumulative' = m.cumulative
  /\ totals' = m.totals
  /\ nCircuitOpen' = nCircuitOpen + Count(m.emitted, "circuitOpen")
  /\ nCircuitClosed' = nCircuitClosed + Count(m.emitted, "circuitClosed")

Config == <<waitThreshold, hasHealthCheck>>

\* What only destroy(), deregister(), startSnapshots() and stopSnapshots()
\* change.
Lifecycle == <<attached, _brakesInstances, globalListeners, snapshotInterval, snapshotTimers>>

\* The calls in flight are a bag of [pc, gen]: pc "running" while the
\* primary and its timeout timer are pending, "tapThrew" while the
\* rejection raised by the tap-callback waits for the catch-callback,
\* "timedOut" while the primary is still pending after the timeout timer
\* rejected the promise of _execPromise (execGeneration is read no more:
\* gen 0).
InFlight(pc) == {x \in BagToSet(calls) : x.pc = pc}
Moved(x, pc) == (calls (-) SetToBag({x})) (+) SetToBag({[x EXCEPT !.pc = pc]})
Ended(x) == calls (-) SetToBag({x})
TimedOut(x) == (calls (-) SetToBag({x})) (+) SetToBag({[pc |-> "timedOut", gen |-> 0]})

\* The state after the constructors, with bs for the window.
Constructed(bs) ==
  /\ circuitOpen = FALSE
  /\ circuitGeneration = 1
  /\ healthInterval = FALSE
  /\ cooldownTimers = 0
  /\ buckets = bs
  /\ activeBucket = _activePosition
  /\ cumulative = defaultCumulativeStats
  /\ totals = LatencyStats([i \in 1..BucketNum |-> Bucket])
  /\ calls = EmptyBag
  /\ probes = 0
  /\ waitThreshold \in WaitThresholds
  /\ hasHealthCheck \in BOOLEAN
  /\ nCircuitOpen = 0
  /\ nCircuitClosed = 0
  /\ attached = TRUE
  /\ _brakesInstances = <<"b">>
  /\ globalListeners = 1
  /\ snapshotInterval = TRUE
  /\ snapshotTimers = 1
  /\ last = [op |-> "init", gen |-> 0, result |-> "none", emitted |-> <<>>, primary |-> FALSE, circuitFallback |-> FALSE, openedOn |-> NoStats, dirty |-> FALSE, updates |-> <<>>, snapshots |-> <<>>, again |-> FALSE, isFailure |-> TRUE, brakesFallback |-> FALSE, pushed |-> 0]

Init == Constructed([i \in 1..BucketNum |-> Bucket])

\* Circuit.exec on a closed breaker: the primary is invoked under its
\* timeout timer; the call stays in flight with its execGeneration.
ExecClosed ==
  /\ BagCardinality(calls) < MaxCalls
  /\ ~circuitOpen
  /\ calls' = calls (+) SetToBag({[pc |-> "running", gen |-> circuitGeneration]})
  /\ LET m == Emit(Cur, "exec") IN
     /\ Commit(m)
     /\ last' = Did(m, "exec", circuitGeneration, "pending", TRUE, FALSE)
  /\ UNCHANGED <<probes, Config, Lifecycle>>

\* Circuit.exec on an open breaker, on a circuit with or without a fallback
\* of its own, on a breaker with or without one (read only when the
\* circuit has none).
ExecOpen ==
  /\ circuitOpen
  /\ WindowTotal + WindowShort < MaxTotal
  /\ \E circuitFallback \in BOOLEAN, brakesFallback \in BOOLEAN :
       LET m == ExecShortCircuit(Cur) IN
       /\ circuitFallback => ~brakesFallback
       /\ Commit(m)
       /\ last' = [Did(m, "execOpen", circuitGeneration, IF m.threw THEN "TypeError" ELSE Fallback(circuitFallback, brakesFallback, "CircuitBrokenError"), FALSE, circuitFallback) EXCEPT !.brakesFallback = brakesFallback]
  /\ UNCHANGED <<calls, probes, Config, Lifecycle>>

\* The primary resolves before the deadline: the timer is cleared and the
\* tap-callback runs. When it throws, the chain goes on to the
\* catch-callback with the TypeError.
PrimaryResolves ==
  /\ WindowTotal + WindowShort < MaxTotal
  /\ \E x \in InFlight("running"), runTime \in RunTimes :
       LET m == TapCallback(Cur, runTime) IN
       /\ calls' = IF m.threw THEN Moved(x, "tapThrew") ELSE Ended(x)
       /\ Commit(m)
       /\ last' = Did(m, "resolve", x.gen, IF m.threw THEN "pending" ELSE "value", FALSE, FALSE)
  /\ UNCHANGED <<probes, Config, Lifecycle>>

\* The catch-callback for call x and what exec's promise settles with: a
\* throw of a listener rejects it with the TypeError, else the fallback
\* dispatch, on a circuit with or without a fallback of its own, on a
\* breaker with or without one (read only when the circuit has none).
Catch(x, op, err) ==
  /\ WindowTotal + WindowShort < MaxTotal
  /\ \E runTime \in RunTimes, isF \in BOOLEAN, circuitFallback \in BOOLEAN, brakesFallback \in BOOLEAN :
       LET m == CatchCallback(Cur, err, isF, runTime, x.gen) IN
       /\ circuitFallback => ~brakesFallback
       /\ Commit(m)
       /\ last' = [Did(m, op, x.gen, IF m.threw THEN "TypeError" ELSE Fallback(circuitFallback, brakesFallback, err), FALSE, circuitFallback) EXCEPT !.isFailure = (isF \/ err = "TimeOutError"), !.brakesFallback = brakesFallback]
  /\ calls' = IF err = "TimeOutError" THEN TimedOut(x) ELSE Ended(x)
  /\ UNCHANGED <<probes, Config, Lifecycle>>

\* The catch-callback after the tap-callback threw.
TapRejected == \E x \in InFlight("tapThrew") : Catch(x, "tapCatch", "TypeError")

\* The primary rejects before the deadline.
PrimaryRejects == \E x \in InFlight("running") : Catch(x, "reject", "Error")

\* The timeout timer of _execPromise fires first.
Deadline == \E x \in InFlight("running") : Catch(x, "deadline", "TimeOutError")

\* The primary of a call that timed out settles: clearTimeout, then
\* resolve or reject on the promise the timer has rejected already, which
\* does nothing.
LateSettle ==
  /\ \E x \in InFlight("timedOut") : calls' = Ended(x)
  /\ Commit(Cur)
  /\ last' = Did(Cur, "late", 0, "none", FALSE, FALSE)
  /\ UNCHANGED <<probes, Config, Lifecycle>>

\* The rotation interval ticks.
Rotate ==
  /\ ~Fresh(buckets)
  /\ LET m == Stats_rotate(Cur) IN
     /\ Commit(m)
     /\ last' = Did(m, "rotate", 0, "none", FALSE, FALSE)
  /\ UNCHANGED <<calls, probes, Config, Lifecycle>>

\* A scheduled snapshot interval ticks; a throw of _resetDerivs leaves the
\* callback with the TypeError.
Snapshot ==
  /\ snapshotTimers > 0
  /\ LET m == _snapshot(Cur) IN
     /\ Commit(m)
     /\ last' = [Did(m, "snapshot", 0, IF m.threw THEN "TypeError" ELSE "none", FALSE, FALSE) EXCEPT !.again = (last.op = "snapshot")]
  /\ UNCHANGED <<calls, probes, Config, Lifecycle>>

\* Stats.reset() called on the breaker's _stats.
Reset ==
  /\ LET m == Stats_reset(Cur) IN
     /\ Commit(m)
     /\ last' = Did(m, "reset", 0, "none", FALSE, FALSE)
  /\ UNCHANGED <<calls, probes, Config, Lifecycle>>

\* _open() called on the breaker, open or closed.
Open ==
  /\ circuitOpen \/ circuitGeneration < MaxGen
  /\ LET m == _open(Cur) IN
     /\ Commit(m)
     /\ last' = Did(m, "open", 0, "none", FALSE, FALSE)
  /\ UNCHANGED <<calls, probes, Config, Lifecycle>>

\* An 'update' event reaches the listener with an aggregate of total t and
\* successful s; on an open breaker, where _checkStats returns before it
\* reads the ratio, with the aggregate of MaxStat failures.
CheckStats ==
  /\ circuitOpen \/ circuitGeneration < MaxGen
  /\ \E t \in 0..MaxStat : \E s \in 0..t :
       LET m == _checkStats(Cur, [total |-> t, successful |-> s, failed |-> t - s, timedOut |-> 0, shortCircuited |-> 0]) IN
       /\ circuitOpen => (t = MaxStat /\ s = 0)
       /\ Commit(m)
       /\ last' = Did(m, "checkStats", 0, "none", FALSE, FALSE)
  /\ UNCHANGED <<calls, probes, Config, Lifecycle>>

\* A cooldown timer fires.
CooldownFires ==
  /\ cooldownTimers > 0
  /\ LET m == [CooldownCallback(Cur) EXCEPT !.cooldownTimers = @ - 1] IN
     /\ Commit(m)
     /\ last' = Did(m, "cooldown", 0, "none", FALSE, FALSE)
  /\ UNCHANGED <<calls, probes, Config, Lifecycle>>

\* The callback of the health interval: a probe is started on an open
\* breaker, the interval is cleared on a closed one.
HealthIntervalCallback(m) == IF m.circuitOpen THEN m ELSE IF m.healthInterval THEN [m EXCEPT !.healthInterval = FALSE] ELSE m

\* The health interval ticks.
HealthTick ==
  /\ healthInterval
  /\ circuitOpen => probes < MaxProbes
  /\ probes' = IF circuitOpen THEN probes + 1 ELSE probes
  /\ LET m == HealthIntervalCallback(Cur) IN
     /\ Commit(m)
     /\ last' = Did(m, "tick", 0, "none", FALSE, FALSE)
  /\ UNCHANGED <<calls, Config, Lifecycle>>

\* A pending health probe resolves.
ProbeResolves ==
  /\ probes > 0
  /\ probes' = probes - 1
  /\ LET m == HealthCheckResolved(Cur) IN
     /\ Commit(m)
     /\ last' = Did(m, "probeResolve", 0, "none", FALSE, FALSE)
  /\ UNCHANGED <<calls, Config, Lifecycle>>

\* A pending health probe rejects.
ProbeRejects ==
  /\ probes > 0
  /\ probes' = probes - 1
  /\ LET m == HealthCheckRejected(Cur) IN
     /\ Commit(m)
     /\ last' = Did(m, "probeReject", 0, "none", FALSE, FALSE)
  /\ UNCHANGED <<calls, Config, Lifecycle>>

\* Brakes.healthCheck(func) called after construction.
HealthCheck ==
  /\ ~hasHealthCheck
  /\ hasHealthCheck' = TRUE
  /\ Commit(Cur)
  /\ last' = Did(Cur, "healthCheck", 0, "none", FALSE, FALSE)
  /\ UNCHANGED <<calls, probes, waitThreshold, Lifecycle>>

\* GlobalStats.deregister: the instance leaves the list; removeListener is
\* handed a new function made by bind, which is no listener of the breaker,
\* so no listener is removed.
deregister(instances, listeners) == [instances |-> SelectSeq(instances, LAMBDA i : i # "b"), listeners |-> listeners]

\* globalStats.deregister(b) called on the registry.
Deregister ==
  /\ LET r == deregister(_brakesInstances, globalListeners) IN
     /\ _brakesInstances' = r.instances
     /\ globalListeners' = r.listeners
  /\ Commit(Cur)
  /\ last' = Did(Cur, "deregister", 0, "none", FALSE, FALSE)
  /\ UNCHANGED <<calls, probes, Config, attached, snapshotInterval, snapshotTimers>>

\* Brakes.destroy(): deregister, then removeAllListeners for every event of
\* the Brakes emitter. The listeners on _stats stay, and no timer is
\* cleared.
Destroy ==
  /\ _brakesInstances' = deregister(_brakesInstances, globalListeners).instances
  /\ globalListeners' = 0
  /\ attached' = FALSE
  /\ Commit(Cur)
  /\ last' = Did(Cur, "destroy", 0, "none", FALSE, FALSE)
  /\ UNCHANGED <<calls, probes, Config, snapshotInterval, snapshotTimers>>

\* Stats.startSnapshots(): a new interval is scheduled and its handle
\* stored over the one held, which is not cleared.
StartSnapshots ==
  /\ snapshotTimers < MaxSnapshotTimers
  /\ snapshotTimers' = snapshotTimers + 1
  /\ snapshotInterval' = TRUE
  /\ Commit(Cur)
  /\ last' = Did(Cur, "startSnapshots", 0, "none", FALSE, FALSE)
  /\ UNCHANGED <<calls, probes, Config, attached, _brakesInstances, globalListeners>>

\* Stats.stopSnapshots(): clears the interval whose handle is held and
\* returns true, or returns false when none is held.
StopSnapshots ==
  /\ snapshotTimers' = IF snapshotInterval THEN snapshotTimers - 1 ELSE snapshotTimers
  /\ snapshotInterval' = FALSE
  /\ Commit(Cur)
  /\ last' = Did(Cur, "stopSnapshots", 0, IF snapshotInterval THEN "true" ELSE "false", FALSE, FALSE)
  /\ UNCHANGED <<calls, probes, Config, attached, _brakesInstances, globalListeners>>

Next ==
  \/ ExecClosed
  \/ ExecOpen
  \/ PrimaryResolves
  \/ TapRejected
  \/ PrimaryRejects
  \/ Deadline
  \/ LateSettle
  \/ Rotate
  \/ Snapshot
  \/ Reset
  \/ Open
  \/ CheckStats
  \/ CooldownFires
  \/ HealthTick
  \/ ProbeResolves
  \/ ProbeRejects
  \/ HealthCheck

Spec == Init /\ [][Next]_vars

\* A cooldown timer set by setTimeout fires once circuitDuration has
\* passed: weak fairness of the cooldown callback, WF_vars(CooldownFires),
\* written out. CooldownFires is enabled exactly when a timer is pending,
\* and its steps are the steps that take a pending timer away.
CooldownFair == []<>(cooldownTimers = 0) \/ []<><<cooldownTimers' < cooldownTimers>>_vars

SpecCooldown == Spec /\ CooldownFair

\* The breaker in service together with the calls that take it out of
\* service.
NextLifecycle ==
  \/ Next
  \/ Deregister
  \/ Destroy
  \/ StartSnapshots
  \/ StopSnapshots

SpecLifecycle == Init /\ [][NextLifecycle]_vars

\* A bucket holding the latency samples s of as many successes.
Sampled(s) == [Bucket EXCEPT !.total = Len(s), !.successful = Len(s), !.requestTimes = s]

\* The windows whose buckets hold up to MaxSamples samples each.
SampledWindows == [1..BucketNum -> {Sampled(s) : s \in UNION {[1..n -> SampleTimes] : n \in 0..MaxSamples}}]

InitLatency == \E bs \in SampledWindows : Constructed(bs)

\* Stats._generateStats(_buckets, true) is called on the window.
GenerateStats ==
  /\ LET m == [Cur EXCEPT !.totals = LatencyStats(buckets)] IN
     /\ Commit(m)
     /\ last' = Did(m, "generateStats", 0, "none", FALSE, FALSE)
  /\ UNCHANGED <<calls, probes, Config, Lifecycle>>

\* The latency part of _generateStats as a function of the window: every
\* window of sampled buckets, and the one call.
SpecLatency == InitLatency /\ [][GenerateStats]_vars

\* ------------------------------------------------------------- properties

\* The last callback emitted event e.
EmittedBy(l, e) == Count(l.emitted, e) > 0

\* The aggregate a trips the threshold: total > waitThreshold and
\* successful / total < threshold.
Trips(a) == a.total > waitThreshold /\ a.total > 0 /\ a.successful * ThresholdDen < ThresholdNum * a.total

\* C1: a 'failure' or 'timeout' whose execGeneration differs from the
\* circuitGeneration at delivery changes no bucket of the window and no
\* cumulative counter.
C1_StaleFailureDropped == [][((EmittedBy(last', "failure") \/ EmittedBy(last', "timeout")) /\ last'.gen # circuitGeneration) => (buckets' = buckets /\ cumulative' = cumulative)]_vars

\* A failure or timeout of an older generation was delivered while the
\* window held recordings.
C1_Witness == (EmittedBy(last, "failure") \/ EmittedBy(last, "timeout")) /\ last.gen # circuitGeneration /\ last.dirty

\* C2: a 'success' of an exec that started in an earlier generation changes
\* no bucket of the window and no cumulative counter.
C2_StaleSuccessDropped == [][(EmittedBy(last', "success") /\ last'.gen # circuitGeneration) => (buckets' = buckets /\ cumulative' = cumulative)]_vars

\* C3: every closed -> open transition other than a direct _open() call is
\* made by the threshold check on an aggregate with total > waitThreshold
\* and successful / total < threshold.
C3_OpensOnlyPastWaitThreshold == [][(~circuitOpen /\ circuitOpen' /\ last'.op # "open") => Trips(last'.openedOn)]_vars

\* The threshold check opened the breaker on the first total past
\* waitThreshold.
C3_Witness == last.op = "checkStats" /\ circuitOpen /\ last.openedOn.total = waitThreshold + 1

\* C4: a success, failure or timeout of the current generation recorded on
\* a closed breaker whose resulting window aggregate trips the threshold
\* leaves the breaker open, with 'circuitOpen' emitted once, no
\* 'circuitClosed' and the generation one higher.
C4_OpensOnThreshold == [][((EmittedBy(last', "success") \/ EmittedBy(last', "failure") \/ EmittedBy(last', "timeout")) /\ last'.gen = circuitGeneration /\ ~circuitOpen /\ Trips(_generateStats(buckets'))) => (circuitOpen' /\ Count(last'.emitted, "circuitOpen") = 1 /\ Count(last'.emitted, "circuitClosed") = 0 /\ circuitGeneration' = circuitGeneration + 1)]_vars

C6_ShortCircuitAccounting == [][last'.op = "execOpen" => (cumulative'.defined /\ cumulative'.countShortCircuited = cumulative.countShortCircuited + 1 /\ buckets'[BucketNum].shortCircuited = buckets[BucketNum].shortCircuited + 1 /\ cumulative'.countTotal = cumulative.countTotal /\ \A i \in 1..BucketNum : (buckets'[i].total = buckets[i].total /\ buckets'[i].successful = buckets[i].successful /\ buckets'[i].failed = buckets[i].failed /\ buckets'[i].timedOut = buckets[i].timedOut /\ buckets'[i].requestTimes = buckets[i].requestTimes))]_vars

\* C7: an exec on an open breaker does not invoke the primary, ends with
\* the circuit's fallback, else the breaker's fallback, else the
\* CircuitBrokenError, and emits no success, failure or timeout.
C7_OpenExecResult == last.op = "execOpen" => (~last.primary /\ last.result = Fallback(last.circuitFallback, last.brakesFallback, "CircuitBrokenError") /\ ~EmittedBy(last, "success") /\ ~EmittedBy(last, "failure") /\ ~EmittedBy(last, "timeout"))

\* C8: circuitGeneration is 1 + the number of 'circuitOpen' events emitted,
\* and a step changes it by exactly 1 when it takes the breaker from closed
\* to open and by 0 otherwise.
C8_Generation == [][circuitGeneration = 1 + nCircuitOpen /\ circuitGeneration' = 1 + nCircuitOpen' /\ circuitGeneration' = circuitGeneration + (IF ~circuitOpen /\ circuitOpen' THEN 1 ELSE 0)]_vars

\* _open() was called on a breaker already open in its third generation,
\* after a close: nothing was emitted.
C8_Witness == last.op = "open" /\ last.emitted = <<>> /\ circuitOpen /\ circuitGeneration = 3 /\ nCircuitClosed >= 1

\* C9: between callbacks the breaker is open exactly when the health
\* interval or a cooldown timer is scheduled, and never are two timers
\* scheduled at once.
C9_TimerState == (circuitOpen <=> (healthInterval \/ cooldownTimers > 0)) /\ ~(healthInterval /\ cooldownTimers > 0) /\ cooldownTimers <= 1

\* A probe resolved and closed the breaker while another probe was pending.
C9_Witness == last.op = "probeResolve" /\ EmittedBy(last, "circuitClosed") /\ ~circuitOpen /\ probes >= 1

\* C10: whenever 'circuitClosed' is emitted every bucket of the window is
\* a new one.
C10_ResetOnClose == [][nCircuitClosed' # nCircuitClosed => Fresh(buckets')]_vars

\* The breaker closed on a window that held recordings before the callback.
C10_Witness == EmittedBy(last, "circuitClosed") /\ last.dirty /\ Fresh(buckets) /\ ~circuitOpen

\* The plain counters of a CumulativeStats.
PlainCounters(cum) == <<cum.defined, cum.countTotal, cum.countSuccess, cum.countFailure, cum.countTimeout, cum.countShortCircuited>>

\* The aggregate of an empty window.
ZeroStats == [total |-> 0, successful |-> 0, failed |-> 0, timedOut |-> 0, shortCircuited |-> 0]

\* The last callback ran Stats.reset(): a direct call, the cooldown
\* callback, or a probe's then-callback on an open breaker.
DidReset == last.op \in {"reset", "cooldown"} \/ (last.op = "probeResolve" /\ EmittedBy(last, "circuitClosed"))

\* C11: a callback that runs Stats.reset() leaves the plain cumulative
\* counters as they were, leaves bucketNum buckets, and emits exactly one
\* 'update', whose total, successful, failed, timedOut and shortCircuited
\* are 0.
C11_ResetFrame == [][DidReset' => (PlainCounters(cumulative') = PlainCounters(cumulative) /\ Len(buckets') = BucketNum /\ last'.updates = <<ZeroStats>> /\ Count(last'.emitted, "update") = 1)]_vars

\* Stats.reset() was called directly on a closed breaker whose window held
\* recordings.
C11_Witness == last.op = "reset" /\ last.dirty /\ ~circuitOpen /\ last.updates = <<ZeroStats>> /\ Fresh(buckets)

\* C12: without a health check every closed -> open transition schedules
\* exactly one cooldown timer; a breaker open under a cooldown timer closes
\* only in the callback of that timer, and (the timer firing eventually) is
\* eventually closed.
C12_CooldownHealing == [][(~circuitOpen /\ circuitOpen' /\ ~hasHealthCheck) => (cooldownTimers = 0 /\ cooldownTimers' = 1 /\ ~healthInterval')]_vars /\ [][(circuitOpen /\ cooldownTimers > 0 /\ ~circuitOpen') => (last'.op = "cooldown" /\ cooldownTimers' = cooldownTimers - 1)]_vars /\ ((circuitOpen /\ cooldownTimers > 0) ~> ~circuitOpen)

\* The cooldown timer fired on a breaker without a health check and closed
\* it in its second generation.
C12_Witness == last.op = "cooldown" /\ EmittedBy(last, "circuitClosed") /\ ~circuitOpen /\ ~hasHealthCheck /\ cooldownTimers = 0 /\ circuitGeneration = 2

\* C13: a rejected probe emits 'healthCheckFailed' and nothing else and
\* leaves the breaker's state, timers and window as they were; a probe that
\* resolves on an open breaker resets the window, emits 'circuitClosed',
\* closes the breaker and cancels the interval; a breaker open under the
\* health interval closes in no other callback.
C13_ProbeHealing == [][(last'.op = "probeReject" => (last'.emitted = <<"healthCheckFailed">> /\ circuitOpen' = circuitOpen /\ healthInterval' = healthInterval /\ cooldownTimers' = cooldownTimers /\ buckets' = buckets /\ circuitGeneration' = circuitGeneration)) /\ ((last'.op = "probeResolve" /\ circuitOpen) => (~circuitOpen' /\ Fresh(buckets') /\ Count(last'.emitted, "circuitClosed") = 1 /\ ~healthInterval')) /\ ((circuitOpen /\ healthInterval /\ ~circuitOpen') => last'.op = "probeResolve")]_vars

\* A probe was rejected on an open breaker that had been closed by a probe
\* before: it is still open, its interval still scheduled.
C13_Witness == last.op = "probeReject" /\ circuitOpen /\ healthInterval /\ nCircuitClosed >= 1 /\ hasHealthCheck

\* C14: every bucket of the window has total = successful + failed +
\* timedOut and as many latency samples as its total.
C14_BucketInvariant == \A i \in 1..Len(buckets) : (buckets[i].total = buckets[i].successful + buckets[i].failed + buckets[i].timedOut /\ Len(buckets[i].requestTimes) = buckets[i].total)

\* The last callback delivered a recording to Stats.
DidRecord == last.op = "execOpen" \/ EmittedBy(last, "success") \/ EmittedBy(last, "failure") \/ EmittedBy(last, "timeout")

\* C15: the window always holds bucketNum buckets, _activeBucket is always
\* the last of them, and a recording changes no other bucket.
C15_Ring == [](Len(buckets) = BucketNum /\ activeBucket = BucketNum) /\ [][DidRecord' => \A i \in 1..(BucketNum - 1) : buckets'[i] = buckets[i]]_vars

\* A recording went to the last bucket after a rotation had moved an
\* earlier one to the place before it.
C15_Witness == DidRecord /\ last.dirty /\ buckets[BucketNum - 1].total = 1 /\ buckets[BucketNum].total = 1 /\ activeBucket = BucketNum

\* The ...Deriv counters of a CumulativeStats.
DerivCounters(cum) == <<cum.countTotalDeriv, cum.countSuccessDeriv, cum.countFailureDeriv, cum.countTimeoutDeriv, cum.countShortCircuitedDeriv>>

\* C16: no step decreases a plain cumulative counter, and after a callback
\* that emitted 'snapshot' the cumulative counters exist with all five
\* ...Deriv counters 0 and the plain counters as they were.
C16_CumulativeCounters == [][(\A i \in 2..6 : PlainCounters(cumulative')[i] >= PlainCounters(cumulative)[i]) /\ (EmittedBy(last', "snapshot") => (cumulative'.defined /\ DerivCounters(cumulative') = <<0, 0, 0, 0, 0>> /\ PlainCounters(cumulative') = PlainCounters(cumulative)))]_vars

\* The difference of the plain counters of two snapshot payloads.
Delta(p2, p1) == <<p2.countTotal - p1.countTotal, p2.countSuccess - p1.countSuccess, p2.countFailure - p1.countFailure, p2.countTimeout - p1.countTimeout, p2.countShortCircuited - p1.countShortCircuited>>

\* C17: of two snapshots taken by consecutive callbacks, the payload of the
\* second carries ...Deriv counters, each equal to the plain counter of the
\* second payload minus that of the first (0: nothing was recorded in
\* between).
C17_DerivEqualsDelta == [][(last.op = "snapshot" /\ last'.op = "snapshot") => (last'.snapshots[1].cum.defined /\ DerivCounters(last'.snapshots[1].cum) = Delta(last'.snapshots[1].cum, last.snapshots[1].cum) /\ DerivCounters(last'.snapshots[1].cum) = <<0, 0, 0, 0, 0>>)]_vars

\* How many 'success', 'failure' and 'timeout' events the callback l emitted.
Outcomes(l) == Count(l.emitted, "success") + Count(l.emitted, "failure") + Count(l.emitted, "timeout")

\* C18: with the default isFailure, a call that ran the primary has emitted
\* exactly one of 'success', 'failure', 'timeout' when its promise settles
\* (the catch-callback after a throwing tap-callback follows the 'success'
\* the tap-callback emitted); when the deadline fires first that one event
\* is 'timeout', and the later settlement of the primary emits nothing and
\* changes no bucket and no cumulative counter.
C18_ExactlyOneOutcome == [][(((last'.op \in {"tapCatch", "reject", "deadline"} /\ last'.isFailure) \/ (last'.op = "resolve" /\ last'.result = "value")) => Outcomes(last') + (IF last'.op = "tapCatch" THEN 1 ELSE 0) = 1) /\ (last'.op = "deadline" => (Outcomes(last') = 1 /\ EmittedBy(last', "timeout"))) /\ (last'.op = "late" => (last'.emitted = <<>> /\ buckets' = buckets /\ cumulative' = cumulative))]_vars

\* C19: when the primary rejects with an error that is no TimeOutError and
\* for which isFailure returns false, the catch-callback emits nothing,
\* changes no bucket, no cumulative counter and not the breaker's state,
\* and the call ends with the circuit's fallback, else the breaker's, else
\* the error.
C19_Unclassified == [][(last'.op = "reject" /\ ~last'.isFailure) => (last'.emitted = <<>> /\ buckets' = buckets /\ cumulative' = cumulative /\ circuitOpen' = circuitOpen /\ circuitGeneration' = circuitGeneration /\ last'.result = (IF last'.circuitFallback THEN "fallback" ELSE IF last'.brakesFallback THEN "brakesFallback" ELSE "Error"))]_vars

\* A rejection isFailure did not classify ended a call of the current
\* generation with the error itself, on a closed breaker whose window held
\* recordings.
C19_Witness == last.op = "reject" /\ ~last.isFailure /\ last.result = "Error" /\ last.gen = circuitGeneration /\ ~circuitOpen /\ last.dirty

\* C20: when the primary fails or times out (a failure by isFailure) and a
\* fallback exists, the call ends with the circuit's fallback, else the
\* breaker's, and the callback emitted exactly one outcome event.
C20_FallbackResult == [][(last'.op \in {"reject", "deadline"} /\ last'.isFailure /\ (last'.circuitFallback \/ last'.brakesFallback)) => (last'.result = (IF last'.circuitFallback THEN "fallback" ELSE "brakesFallback") /\ Outcomes(last') = 1)]_vars

\* C21: once destroy() has returned no snapshot interval, health interval
\* or cooldown timer of the breaker is scheduled, and no callback rotates
\* the buckets, takes a snapshot, runs the health interval or closes the
\* breaker from the cooldown timer.
C21_DestroyStopsTimers == [](~attached => (snapshotTimers = 0 /\ ~healthInterval /\ cooldownTimers = 0)) /\ [][~attached => last'.op \notin {"rotate", "snapshot", "tick", "cooldown"}]_vars

\* GlobalStats.instanceCount
instanceCount == Len(_brakesInstances)

\* The breaker is in the registry's list.
Registered == \E i \in 1..Len(_brakesInstances) : _brakesInstances[i] = "b"

\* C22: deregister(b) takes b out of the registry's list, lowers
\* instanceCount by one when b was in it and leaves no snapshot listener of
\* the registry on b; a 'snapshot' b emits while deregistered (and not
\* destroyed) pushes nothing onto the raw feed.
C22_Deregistered == [][last'.op = "deregister" => (~Registered' /\ instanceCount' = instanceCount - (IF Registered THEN 1 ELSE 0) /\ globalListeners' = 0)]_vars /\ [][(attached /\ ~Registered /\ EmittedBy(last', "Brakes.snapshot")) => last'.pushed = 0]_vars

\* The latency samples of the window, in bucket order.
Samples == ConcatTimes(buckets, BucketNum)

\* How many of the samples a are below v, and how many at most v.
Below(a, v) == Cardinality({i \in 1..Len(a) : a[i] < v})
AtMost(a, v) == Cardinality({i \in 1..Len(a) : a[i] <= v})

\* C23: after _generateStats(buckets, true) on a window of n > 0 samples
\* the percentile published for p is a sample; for p = 0 it is the least
\* one, else it is the element ceil(p * n) of the samples in ascending
\* order (fewer than p * n samples are below it and at least p * n are at
\* most it), so the greatest one for p = 1, and the only one when n = 1.
\* On an empty window every percentile and latencyMean are 0.
C23_PercentileRule == last.op = "generateStats" => LET a == Samples IN IF Len(a) = 0 THEN (totals.latencyMean = 0 /\ \A k \in 1..Len(Percentiles) : totals.percentiles[k] = 0) ELSE \A k \in 1..Len(Percentiles) : LET p == Percentiles[k] v == totals.percentiles[k] IN ((\E i \in 1..Len(a) : a[i] = v) /\ (IF p[1] = 0 THEN \A i \in 1..Len(a) : v <= a[i] ELSE (Below(a, v) * p[2] < p[1] * Len(a) /\ AtMost(a, v) * p[2] >= p[1] * Len(a))) /\ (p[1] = p[2] => \A i \in 1..Len(a) : a[i] <= v) /\ (Len(a) = 1 => v = a[1]))

\* The percentiles of a window of four unsorted samples over two buckets
\* were published: the least, the median and the greatest differ.
C23_Witness == last.op = "generateStats" /\ Len(Samples) = 4 /\ Samples[1] > Samples[4] /\ totals.percentiles[1] < totals.percentiles[3] /\ totals.percentiles[3] < totals.percentiles[9]

\* C24: a probe that was invoked in an earlier open period (it is pending
\* when the callback that opens the breaker returns) and resolves in the new
\* period does not reset the window, close the breaker or cancel the
\* health interval.
C24_StaleProbe == [][(circuitOpen /\ EmittedBy(last, "circuitOpen") /\ probes > 0 /\ last'.op = "probeResolve") => (circuitOpen' /\ healthInterval' = healthInterval /\ buckets' = buckets /\ last'.updates = <<>> /\ ~EmittedBy(last', "circuitClosed"))]_vars

\* C25: between callbacks the 'circuitOpen' events emitted are as many as
\* the 'circuitClosed' events on a closed breaker and one more on an open
\* one; a callback emits at most one of the two events, 'circuitOpen' only
\* when it takes the breaker from closed to open and 'circuitClosed' only
\* when it takes it from open to closed.
C25_Alternation == [](nCircuitOpen - nCircuitClosed = (IF circuitOpen THEN 1 ELSE 0)) /\ [][LET opens == nCircuitOpen' - nCircuitOpen closes == nCircuitClosed' - nCircuitClosed IN (opens + closes <= 1 /\ (opens = 1 => (~circuitOpen /\ circuitOpen')) /\ (closes = 1 => (circuitOpen /\ ~circuitOpen')))]_vars

\* After two opens and two closes a probe resolved on the closed breaker
\* and emitted nothing.
C25_Witness == last.op = "probeResolve" /\ last.emitted = <<>> /\ ~circuitOpen /\ nCircuitOpen = 2 /\ nCircuitClosed = 2

\* C26: the cumulative counters exist from construction on (defined, and
\* all ten 0 before anything is recorded), and the first recording, a
\* success or a short circuit, ends without an error and leaves exactly
\* one plain counter of its kind at 1.
C26_CumulativeFromConstruction == [](cumulative.defined /\ (last.op = "init" => cumulative = [defaultCumulativeStats EXCEPT !.defined = TRUE])) /\ [][(last'.op \in {"execOpen", "resolve"} /\ cumulative.countTotal = 0 /\ cumulative.countShortCircuited = 0) => (last'.result \notin {"TypeError", "pending"} /\ cumulative'.countTotal + cumulative'.countShortCircuited = 1)]_vars

\* C27: while no snapshot handle is held (stopSnapshots() has returned
\* and startSnapshots() was not called since) no snapshot interval is
\* scheduled and no callback takes a snapshot; stopSnapshots() returns
\* true exactly when a handle was held and leaves none, so a stop that
\* follows a stop returns false.
C27_SnapshotTeardown == [](~snapshotInterval => snapshotTimers = 0) /\ [][~snapshotInterval => last'.op # "snapshot"]_vars /\ [][last'.op = "stopSnapshots" => (last'.result = (IF snapshotInterval THEN "true" ELSE "false") /\ ~snapshotInterval' /\ (last.op = "stopSnapshots" => last'.result = "false"))]_vars

RECURSIVE Rotated(_, _)
\* The fields after n callbacks of the rotation interval in a row.
Rotated(m, n) == IF n = 0 THEN m ELSE Rotated(Stats_rotate(m), n - 1)

\* C28: a rotation moves every bucket one place towards the front, drops
\* the first and puts a new one last; it emits nothing (no 'update'),
\* changes no cumulative counter and neither opens nor closes the breaker;
\* and from every state, bucketNum rotations in a row leave a window
\* whose aggregate has total, successful, failed, timedOut and
\* shortCircuited 0.
C28_FifoAgeing == [](_generateStats(Rotated([buckets |-> buckets, activeBucket |-> activeBucket], BucketNum).buckets) = ZeroStats) /\ [][last'.op = "rotate" => (Len(buckets') = Len(buckets) /\ (\A i \in 1..(BucketNum - 1) : buckets'[i] = buckets[i + 1]) /\ buckets'[BucketNum] = Bucket /\ last'.emitted = <<>> /\ last'.updates = <<>> /\ cumulative' = cumulative /\ circuitOpen' = circuitOpen /\ circuitGeneration' = circuitGeneration /\ healthInterval' = healthInterval /\ cooldownTimers' = cooldownTimers)]_vars

\* A rotation on a closed breaker dropped the bucket that held the
\* window's only recording: the window is empty again.
C28_Witness == last.op = "rotate" /\ last.dirty /\ Fresh(buckets) /\ ~circuitOpen /\ nCircuitOpen = 0

====
